---------------------------- MODULE Spec2Model ----------------------------
(***************************************************************************)
(* A model of framework/liblegato/linux/ima.c: the four public entry       *)
(* points ima_VerifyFile, ima_VerifyDir, ima_ImportPublicCert and          *)
(* ima_IsEnabled, each a call that builds a shell command, hands it to     *)
(* system() and classifies the wait status, plus the fts(3) walk that      *)
(* VerifyDir drives.  The environment (the directory tree, the way each    *)
(* external process terminates, the kernel's mounts, keys and              *)
(* configuration) is drawn in Init; the actions are the code.              *)
(***************************************************************************)
EXTENDS Integers, Sequences, FiniteSets, TLC

VARIABLES
    op,          \* the public function that is being called
    pc,          \* position in that function: "call", "read", "done"
    result,      \* its return value, "none" until it returns
    kind,        \* the directory tree: node -> kind of filesystem object
    toolTerm,    \* node -> how `evmctl ima_verify` on that node terminates
    sysTerm,     \* how the external tool of a direct call terminates
    shExec,      \* whether sh -c exec()s the tool (its death by signal shows)
    fileLen,     \* strlen(filePath) of a direct VerifyFile call
    certLen,     \* strlen(certPath)
    openErr,     \* fts_open will return NULL (empty path, ENOMEM)
    fts,         \* the traversal handle: "NULL", "open" or "closed"
    cur,         \* the FTSENT fts_read returned last ("none" before the first)
    curInfo,     \* its fts_info
    seen,        \* nodes fts_read has delivered
    log,         \* the external verification commands issued, in order
    closeCount,  \* number of fts_close calls
    badUse,      \* a handle was read or closed while not open
    readErr,     \* fts_read returned NULL with errno set
    kernel,      \* securityfs mount and the keyrings
    kernel0,     \* the kernel state when the call began
    probe        \* what the kernel configuration, command line and key listing hold

vars == <<op, pc, result, kind, toolTerm, sysTerm, shExec, fileLen, certLen,
          openErr, fts, cur, curInfo, seen, log, closeCount, badUse, readErr,
          kernel, kernel0, probe>>

----------------------------------------------------------------------------
(* Bounds of the model.                                                    *)

\* exit statuses 0..MaxExit of an external process
MaxExit == 1
\* signals 1..MaxSig that may kill an external process
MaxSig == 1
\* number of entries below the root of a tree
MaxEntries == 5

----------------------------------------------------------------------------
(* Program constants.                                                      *)

MAX_CMD_BYTES == 4096

\* strlen("/usr/bin/evmctl")
EVMCTL_PATH_LEN == 15

\* the certificate file name TreeWalker skips (ima.h; the spec's scenario
\* calls it cert.pem)
PUB_CERT_NAME == "cert.pem"

LE_OK == "LE_OK"
LE_FAULT == "LE_FAULT"

----------------------------------------------------------------------------
(* Wait statuses: how a process ends, how wait() encodes it, and how the   *)
(* W* macros decode it.                                                    *)

Exit(c) == [k |-> "exit", v |-> c]
Signal(s) == [k |-> "signal", v |-> s]
SpawnFail == [k |-> "spawnfail", v |-> 0]

Terms == {Exit(c) : c \in 0..MaxExit} \cup {Signal(s) : s \in 1..MaxSig}
             \cup {SpawnFail}

\* The exit status sh reports for a command it ran and waited for.
ShellCode(t) ==
    CASE t.k = "exit" -> t.v
      [] t.k = "signal" -> 128 + t.v
      [] OTHER -> 127

\* int system(cmd) for a command line that is one simple command: -1 when no
\* child could be created, else the wait status of sh, which either exec()ed
\* the tool (exec) or waited for it and exited with its status.
System(t, exec) ==
    CASE t.k = "spawnfail" -> -1
      [] t.k = "signal" /\ exec -> t.v
      [] OTHER -> ShellCode(t) * 256

WTERMSIG(status) == status % 128
WIFEXITED(status) == WTERMSIG(status) = 0
WEXITSTATUS(status) == (status \div 256) % 256


----------------------------------------------------------------------------
(* VerifyFile.  A path is modelled by its length; the command by how many  *)
(* characters of each path snprintf wrote into cmd[MAX_CMD_BYTES].         *)

Min(a, b) == IF a < b THEN a ELSE b
Max(a, b) == IF a > b THEN a ELSE b

\* strlen("<EVMCTL_PATH> ima_verify "), strlen(" -k "), strlen(" ")
VERIFY_PREFIX_LEN == EVMCTL_PATH_LEN + 12
VERIFY_MID_LEN == 4
VERIFY_TAIL_LEN == 1

\* snprintf(cmd, sizeof(cmd), "%s ima_verify %s -k %s ", ...): at most
\* sizeof(cmd) - 1 characters of the formatted text are stored.
VerifyCmd(fLen, cLen) ==
    LET room == MAX_CMD_BYTES - 1
        total == VERIFY_PREFIX_LEN + fLen + VERIFY_MID_LEN + cLen + VERIFY_TAIL_LEN
        fOut == Min(fLen, Max(0, room - VERIFY_PREFIX_LEN))
        cOut == Min(cLen, Max(0, room - VERIFY_PREFIX_LEN - fLen - VERIFY_MID_LEN))
    IN  [len |-> Min(total, room), file |-> fOut, cert |-> cOut]

\* A wrong classification: the exit status is read without asking whether
\* the process exited at all.
VerifyFile_NoWIFEXITED(fLen, cLen, exitCode) ==
    [cmd |-> VerifyCmd(fLen, cLen),
     res |-> IF 0 = WEXITSTATUS(exitCode) THEN LE_OK ELSE LE_FAULT]

\* VerifyFile(filePath, certPath), with exitCode the value system(cmd) returned:
\* the command that was run and the le_result_t returned.
VerifyFile(fLen, cLen, exitCode) ==
    [cmd |-> VerifyCmd(fLen, cLen),
     res |-> IF WIFEXITED(exitCode) /\ (0 = WEXITSTATUS(exitCode))
             THEN LE_OK ELSE LE_FAULT]

ima_VerifyFile(fLen, cLen, exitCode) == VerifyFile(fLen, cLen, exitCode)

----------------------------------------------------------------------------
(* The directory tree VerifyDir walks.                                     *)
(*                                                                         *)
(*   r ---- a (a.bin)   b (b.bin)   c (cert.pem)                           *)
(*      |-- s (sub) ---- x (x.bin)   sc (cert.pem)                         *)
(*      `-- l (lnk)  ->  a directory outside the tree holding t (t.bin)    *)
(*                                                                         *)
(* kinds: "ABSENT"; "F" regular file; "NS" regular file lstat fails on;    *)
(* "D" directory; "DNR" directory opendir fails on; "SL" symbolic link to  *)
(* a directory; "SLNONE" symbolic link to nothing.                         *)

Root == "r"
Nodes == {"r", "a", "b", "c", "s", "x", "sc", "l", "t"}

Parent(n) ==
    CASE n \in {"a", "b", "c", "s", "l"} -> "r"
      [] n \in {"x", "sc"} -> "s"
      [] n = "t" -> "l"
      [] OTHER -> "none"

Name(n) ==
    CASE n = "a" -> "a.bin"
      [] n = "b" -> "b.bin"
      [] n \in {"c", "sc"} -> "cert.pem"
      [] n = "s" -> "sub"
      [] n = "x" -> "x.bin"
      [] n = "l" -> "lnk"
      [] n = "t" -> "t.bin"
      [] OTHER -> "root"

\* strlen(fts_accpath): fts changes into each directory, so the access path
\* of an entry below the root is its name.
AccLen(n) ==
    CASE n \in {"a", "b", "x", "t"} -> 5
      [] n \in {"c", "sc"} -> 8
      [] n \in {"s", "l"} -> 3
      [] OTHER -> 4

KindsOf(n) ==
    CASE n = "r" -> {"D", "DNR", "ABSENT"}
      [] n = "a" -> {"ABSENT", "F"}
      [] n = "b" -> {"ABSENT", "F", "NS"}
      [] n \in {"c", "sc", "x", "t"} -> {"ABSENT", "F"}
      [] n = "s" -> {"ABSENT", "D", "DNR"}
      [] OTHER -> {"ABSENT", "SL", "SLNONE"}

\* A node exists only inside something that can hold it.
WellFormed(kd) ==
    /\ \A n \in {"a", "b", "c", "s", "l"} : kd[n] # "ABSENT" => kd["r"] \in {"D", "DNR"}
    /\ \A n \in {"x", "sc"} : kd[n] # "ABSENT" => kd["s"] \in {"D", "DNR"}
    /\ kd["t"] # "ABSENT" => kd["l"] = "SL"

Entries(kd) == {n \in Nodes \ {Root} : kd[n] # "ABSENT"}

AllKinds ==
    {[r |-> kr, a |-> ka, b |-> kb, c |-> kc, s |-> ks, x |-> kx, sc |-> ksc,
      l |-> kl, t |-> kt] :
        kr \in KindsOf("r"), ka \in KindsOf("a"), kb \in KindsOf("b"),
        kc \in KindsOf("c"), ks \in KindsOf("s"), kx \in KindsOf("x"),
        ksc \in KindsOf("sc"), kl \in KindsOf("l"), kt \in KindsOf("t")}

Trees == {kd \in AllKinds : WellFormed(kd) /\ Cardinality(Entries(kd)) <= MaxEntries}

\* The regular files of the tree rooted at r (t lies behind the link, outside).
RegularFiles(kd) == {n \in Nodes \ {"t"} : kd[n] \in {"F", "NS"}}


\* How the verification tool ends on each node.  Only regular files are ever
\* candidates; a certificate file carries no signature of its own.
TermsFor(kd, n) ==
    CASE n \in {"c", "sc"} -> {Exit(1)}
      [] kd[n] \in {"F", "NS"} -> Terms
      [] OTHER -> {Exit(0)}

ToolTerms(kd) ==
    {[r |-> tr, a |-> ta, b |-> tb, c |-> tc, s |-> ts, x |-> tx, sc |-> tsc,
      l |-> tl, t |-> tt] :
        tr \in TermsFor(kd, "r"), ta \in TermsFor(kd, "a"), tb \in TermsFor(kd, "b"),
        tc \in TermsFor(kd, "c"), ts \in TermsFor(kd, "s"), tx \in TermsFor(kd, "x"),
        tsc \in TermsFor(kd, "sc"), tl \in TermsFor(kd, "l"), tt \in TermsFor(kd, "t")}

NoTree == [n \in Nodes |-> "ABSENT"]
NoTerms == [n \in Nodes |-> Exit(0)]

----------------------------------------------------------------------------
(* fts(3), as VerifyDir uses it: fts_open(paths, FTS_PHYSICAL, NULL), then *)
(* fts_read until NULL, then fts_close.                                    *)

FTS_OPTIONS_Logical == "FTS_LOGICAL"

FTS_OPTIONS == "FTS_PHYSICAL"

\* fts_info of a node as fts_read first returns it: lstat under
\* FTS_PHYSICAL, stat under FTS_LOGICAL.  A path that does not exist is
\* an entry too, with FTS_NS.
FtsStat(kd, n) ==
    CASE kd[n] = "F" -> "FTS_F"
      [] kd[n] \in {"D", "DNR"} -> "FTS_D"
      [] kd[n] \in {"NS", "ABSENT"} -> "FTS_NS"
      [] kd[n] = "SL" -> IF FTS_OPTIONS = "FTS_PHYSICAL" THEN "FTS_SL" ELSE "FTS_D"
      [] OTHER -> IF FTS_OPTIONS = "FTS_PHYSICAL" THEN "FTS_SL" ELSE "FTS_SLNONE"

\* opendir succeeds on the node
CanList(kd, n) == kd[n] = "D" \/ (kd[n] = "SL" /\ FTS_OPTIONS # "FTS_PHYSICAL")

Kids(kd, n) == {k \in Nodes : Parent(k) = n /\ kd[k] # "ABSENT"}

Ent(n, info) == [node |-> n, info |-> info]
NullEnt == Ent("NULL", "NULL")

\* fts_open: NULL for an empty path string or when memory runs out, else a
\* handle, whether or not the root exists.
fts_open(err) == IF err THEN "NULL" ELSE "open"

\* fts_read with errno clear: the entries it may return next, given the entry
\* it returned last and those already delivered.  Without a comparison
\* function the children of a directory come in directory order, which is
\* any order.
fts_read(kd, c, info, sn) ==
    IF c = "none" THEN {Ent(Root, FtsStat(kd, Root))}
    ELSE IF info = "FTS_D" THEN
        IF ~CanList(kd, c) THEN {Ent(c, "FTS_DNR")}
        ELSE IF Kids(kd, c) = {} THEN {Ent(c, "FTS_DP")}
        ELSE {Ent(k, FtsStat(kd, k)) : k \in Kids(kd, c)}
    ELSE IF c = Root THEN {NullEnt}
    ELSE LET sibs == Kids(kd, Parent(c)) \ sn
         IN  IF sibs # {} THEN {Ent(k, FtsStat(kd, k)) : k \in sibs}
             ELSE {Ent(Parent(c), "FTS_DP")}

\* fts_read returns NULL with errno set: after the last entry of a directory
\* it changes back to the parent directory, and when that fails it stops the
\* walk, whatever is left to visit.
fts_read_fails(kd, c, info, sn) ==
    /\ c \notin {"none", Root}
    /\ fts_read(kd, c, info, sn) = {Ent(Parent(c), "FTS_DP")}

\* fts_close on a handle
fts_close(h) == "closed"

----------------------------------------------------------------------------
(* VerifyDir.                                                              *)

VerifiesEntry_AnyName(info, name) == info = "FTS_F"

\* switch (entPtr->fts_info): whether the entry is handed to VerifyFile
VerifiesEntry(info, name) == info = "FTS_F" /\ name # PUB_CERT_NAME

VerifyDirOnFault_Continue == [close |-> FALSE, return |-> FALSE]
VerifyDirOnFault_Leak == [close |-> FALSE, return |-> TRUE]

\* what the loop does when VerifyFile did not return LE_OK
VerifyDirOnFault == [close |-> TRUE, return |-> TRUE]

VerifyDirOpen ==
    /\ op = "VerifyDir" /\ pc = "call"
    /\ fts' = fts_open(openErr)
    /\ IF fts' = "NULL"
       THEN pc' = "done" /\ result' = LE_FAULT
       ELSE pc' = "read" /\ result' = result
    /\ UNCHANGED <<op, kind, toolTerm, sysTerm, shExec, fileLen, certLen, openErr,
                   cur, curInfo, seen, log, closeCount, badUse, readErr,
                   kernel, kernel0, probe>>

\* One turn of the while loop with an entry: fts_read, the switch, and for an
\* eligible file the VerifyFile call and what follows it.
VerifyDirStep ==
    /\ op = "VerifyDir" /\ pc = "read"
    /\ \E e \in fts_read(kind, cur, curInfo, seen) \ {NullEnt} :
       \E exec \in BOOLEAN :
        LET v == VerifyFile(AccLen(e.node), certLen, System(toolTerm[e.node], exec))
            verified == VerifiesEntry(e.info, Name(e.node))
            fault == verified /\ v.res # LE_OK
        IN  /\ cur' = e.node /\ curInfo' = e.info /\ seen' = seen \cup {e.node}
            /\ log' = IF verified
                      THEN Append(log, [node |-> e.node, cmd |-> v.cmd, res |-> v.res])
                      ELSE log
            /\ fts' = IF fault /\ VerifyDirOnFault.close THEN fts_close(fts) ELSE fts
            /\ closeCount' = IF fault /\ VerifyDirOnFault.close
                             THEN closeCount + 1 ELSE closeCount
            /\ badUse' = (badUse \/ fts # "open")
            /\ IF fault /\ VerifyDirOnFault.return
               THEN pc' = "done" /\ result' = LE_FAULT
               ELSE pc' = pc /\ result' = result
    /\ UNCHANGED <<op, kind, toolTerm, sysTerm, shExec, fileLen, certLen, openErr,
                   readErr, kernel, kernel0, probe>>

\* fts_read returns NULL, at the end of the walk or on an error: the loop
\* ends, the handle is closed and LE_OK returned.
VerifyDirEnd ==
    /\ op = "VerifyDir" /\ pc = "read"
    /\ \/ NullEnt \in fts_read(kind, cur, curInfo, seen) /\ readErr' = readErr
       \/ fts_read_fails(kind, cur, curInfo, seen) /\ readErr' = TRUE
    /\ badUse' = (badUse \/ fts # "open")
    /\ fts' = fts_close(fts)
    /\ closeCount' = closeCount + 1
    /\ pc' = "done" /\ result' = LE_OK
    /\ UNCHANGED <<op, kind, toolTerm, sysTerm, shExec, fileLen, certLen, openErr,
                   cur, curInfo, seen, log, kernel, kernel0, probe>>


----------------------------------------------------------------------------
(* A direct call of ima_VerifyFile.                                        *)

CallVerifyFile ==
    /\ op = "VerifyFile" /\ pc = "call"
    /\ LET v == ima_VerifyFile(fileLen, certLen, System(sysTerm, shExec))
       IN  /\ log' = Append(log, [node |-> "arg", cmd |-> v.cmd, res |-> v.res])
           /\ result' = v.res
    /\ pc' = "done"
    /\ UNCHANGED <<op, kind, toolTerm, sysTerm, shExec, fileLen, certLen, openErr,
                   fts, cur, curInfo, seen, closeCount, badUse, readErr,
                   kernel, kernel0, probe>>

----------------------------------------------------------------------------
(* ImportPublicCert and ima_IsEnabled: one shell command line each.        *)
(* kernel: [mounted, imaKey, userKey]: securityfs is mounted; the .ima     *)
(* keyring, the user keyring holds the certificate.                        *)
(* probe: [config, cmdline, keys, mountOk]: /proc/config.gz has            *)
(* CONFIG_IMA=y; /proc/cmdline has ima_appraise=enforce; /proc/keys lists  *)
(* a .ima keyring; mounting securityfs would succeed.                      *)

Kernels == [mounted : BOOLEAN, imaKey : {FALSE}, userKey : {FALSE}]
Probes == [config : BOOLEAN, cmdline : BOOLEAN, keys : BOOLEAN, mountOk : BOOLEAN]

\* sh: A && B
AndThen(a, b) == IF a = 0 THEN b ELSE a
\* sh: A || B
OrElse(a, b) == IF a = 0 THEN a ELSE b

\* The command line of ImportPublicCert, run by sh with the import tool ending
\* as t: SECFS=... && grep -q $SECFS /proc/mounts || mount ... &&
\* ima_id="`awk ...`" && evmctl import <cert> $ima_id.  awk exits 0 whether or
\* not a line matched, so the tool runs with whatever it printed; given no
\* keyring it imports into the user keyring.
ImportShell(kern, prb, t) ==
    LET grep == IF kern.mounted THEN 0 ELSE 1
        mounts == grep # 0
        mount == IF prb.mountOk THEN 0 ELSE 32
        st1 == OrElse(AndThen(0, grep), mount)
        awk == 0
        runs == AndThen(st1, awk) = 0
        code == AndThen(AndThen(st1, awk), ShellCode(t))
    IN  [code |-> code,
         imported |-> runs,
         idEmpty |-> ~prb.keys,
         kernel |-> [mounted |-> kern.mounted \/ (mounts /\ prb.mountOk),
                     imaKey |-> kern.imaKey \/ (runs /\ t = Exit(0) /\ prb.keys),
                     userKey |-> kern.userKey \/ (runs /\ t = Exit(0) /\ ~prb.keys)]]

\* ImportPublicCert(certPath): the value returned and the kernel state left.
ImportPublicCert(kern, prb, t) ==
    LET sh == ImportShell(kern, prb, t)
        exitCode == IF t.k = "spawnfail" THEN -1 ELSE sh.code * 256
    IN  [res |-> IF WIFEXITED(exitCode) /\ (0 = WEXITSTATUS(exitCode))
                 THEN LE_OK ELSE LE_FAULT,
         kernel |-> IF t.k = "spawnfail" THEN kern ELSE sh.kernel]

ima_ImportPublicCert ==
    /\ op = "ImportPublicCert" /\ pc = "call"
    /\ LET r == ImportPublicCert(kernel, probe, sysTerm)
       IN  result' = r.res /\ kernel' = r.kernel
    /\ pc' = "done"
    /\ UNCHANGED <<op, kind, toolTerm, sysTerm, shExec, fileLen, certLen, openErr,
                   fts, cur, curInfo, seen, log, closeCount, badUse, readErr,
                   kernel0, probe>>

IsEnabledShell_Or(prb) ==
    OrElse(IF prb.config THEN 0 ELSE 1, IF prb.cmdline THEN 0 ELSE 1)

\* (zcat /proc/config.gz | grep CONFIG_IMA=y) && (cat /proc/cmdline | grep
\* "ima_appraise=enforce"): the status of a pipeline is that of its grep.
IsEnabledShell(prb) ==
    AndThen(IF prb.config THEN 0 ELSE 1, IF prb.cmdline THEN 0 ELSE 1)

\* ima_IsEnabled(), with t the fate of the shell system() starts: Exit(_) when
\* it runs to its end, Signal(_) when it is killed, SpawnFail when none starts.
IsEnabled(prb, t) ==
    LET exitCode == CASE t.k = "spawnfail" -> -1
                      [] t.k = "signal" -> t.v
                      [] OTHER -> IsEnabledShell(prb) * 256
    IN  WIFEXITED(exitCode) /\ (0 = WEXITSTATUS(exitCode))

ima_IsEnabled ==
    /\ op = "IsEnabled" /\ pc = "call"
    /\ result' = IF IsEnabled(probe, sysTerm) THEN "true" ELSE "false"
    /\ pc' = "done"
    /\ UNCHANGED <<op, kind, toolTerm, sysTerm, shExec, fileLen, certLen, openErr,
                   fts, cur, curInfo, seen, log, closeCount, badUse, readErr,
                   kernel, kernel0, probe>>

----------------------------------------------------------------------------
(* The calls made and their arguments.                                     *)

\* longest path string tried
MaxPathLen == 4095

PathLens == {1, MaxPathLen \div 2, MaxPathLen}

NoKernel == [mounted |-> FALSE, imaKey |-> FALSE, userKey |-> FALSE]
NoProbe == [config |-> FALSE, cmdline |-> FALSE, keys |-> FALSE, mountOk |-> FALSE]

InitCommon ==
    /\ pc = "call" /\ result = "none"
    /\ fts = "NULL" /\ cur = "none" /\ curInfo = "none" /\ seen = {}
    /\ log = <<>> /\ closeCount = 0 /\ badUse = FALSE /\ readErr = FALSE
    /\ kernel0 = kernel

InitVerifyFile ==
    /\ op = "VerifyFile"
    /\ fileLen \in PathLens /\ certLen \in PathLens
    /\ sysTerm \in Terms /\ shExec \in BOOLEAN
    /\ kind = NoTree /\ toolTerm = NoTerms /\ openErr = FALSE
    /\ kernel = NoKernel /\ probe = NoProbe

InitVerifyDir ==
    /\ op = "VerifyDir"
    /\ openErr \in BOOLEAN
    /\ kind \in Trees
    /\ openErr => kind = NoTree
    /\ toolTerm \in ToolTerms(kind)
    /\ fileLen = 0 /\ certLen = 8
    /\ sysTerm = Exit(0) /\ shExec = FALSE
    /\ kernel = NoKernel /\ probe = NoProbe

InitImport ==
    /\ op = "ImportPublicCert"
    /\ kernel \in Kernels /\ probe \in Probes
    /\ probe.config /\ probe.cmdline
    /\ sysTerm \in Terms /\ shExec = FALSE
    /\ fileLen = 0 /\ certLen = 8
    /\ kind = NoTree /\ toolTerm = NoTerms /\ openErr = FALSE

InitIsEnabled ==
    /\ op = "IsEnabled"
    /\ kernel \in Kernels /\ probe \in Probes
    /\ probe.keys /\ probe.mountOk
    /\ sysTerm \in {Exit(0), Signal(1), SpawnFail} /\ shExec = FALSE
    /\ fileLen = 0 /\ certLen = 0
    /\ kind = NoTree /\ toolTerm = NoTerms /\ openErr = FALSE

Init ==
    /\ InitVerifyFile \/ InitVerifyDir \/ InitImport \/ InitIsEnabled
    /\ InitCommon

Next ==
    \/ CallVerifyFile
    \/ VerifyDirOpen
    \/ VerifyDirStep
    \/ VerifyDirEnd
    \/ ima_ImportPublicCert
    \/ ima_IsEnabled

Spec == Init /\ [][Next]_vars


----------------------------------------------------------------------------
(* Properties.                                                             *)

Done(o) == op = o /\ pc = "done"

\* the process ended normally with exit status zero
NormalZero(t) == t.k = "exit" /\ t.v = 0

\* how the tool ended for the command of a log entry
TermOf(e) == IF e.node = "arg" THEN sysTerm ELSE toolTerm[e.node]

\* VerifyFile on node n of the tree would return LE_OK
WouldVerify(n) ==
    \A exec \in BOOLEAN :
        VerifyFile(AccLen(n), certLen, System(toolTerm[n], exec)).res = LE_OK

\* the regular files of the tree that are not named as the certificate
Eligible == {n \in RegularFiles(kind) : Name(n) # PUB_CERT_NAME}

\* number of commands issued for node n
Invocations(n) == Cardinality({i \in DOMAIN log : log[i].node = n})

\* C1: every VerifyFile call, direct or from the walk, returns LE_OK exactly
\* when the external process ended normally with exit status zero, and
\* LE_FAULT for a non-zero exit, a death by signal and a failure to spawn;
\* ima_VerifyFile returns what that one call returned.
C1_VerifyFileIffExitZero ==
    /\ \A i \in DOMAIN log :
          log[i].res = IF NormalZero(TermOf(log[i])) THEN LE_OK ELSE LE_FAULT
    /\ Done("VerifyFile") => Len(log) = 1 /\ result = log[1].res

C1_Witness ==
    /\ Done("VerifyFile") /\ sysTerm.k = "signal" /\ shExec
    /\ result = LE_FAULT

\* C2: VerifyDir on a tree returns LE_OK exactly when VerifyFile would
\* return LE_OK for every regular file of the tree not named as the
\* certificate, whatever the tree holds and however the walk ends.
C2_VerifyDirIffAllVerify ==
    (Done("VerifyDir") /\ ~openErr /\ kind[Root] # "ABSENT")
        => (result = LE_OK <=> \A n \in Eligible : WouldVerify(n))

\* C3: in a VerifyDir call a command that yields LE_FAULT is the last one
\* issued, and the call has returned LE_FAULT.
C3_ShortCircuit ==
    op = "VerifyDir" =>
        \A i \in DOMAIN log :
            log[i].res = LE_FAULT
                => i = Len(log) /\ pc = "done" /\ result = LE_FAULT

C3_Witness ==
    /\ Done("VerifyDir") /\ result = LE_FAULT /\ Len(log) >= 2 /\ ~readErr
    /\ \E n \in Eligible \ seen : kind[n] = "F" /\ kind[Parent(n)] = "D"

\* C4: VerifyDir on a root that does not exist or cannot be opened returns
\* LE_FAULT and issues no command.
C4_BadRootFaults ==
    (Done("VerifyDir") /\ (openErr \/ kind[Root] \in {"ABSENT", "DNR"}))
        => result = LE_FAULT /\ log = <<>>

\* the regular files a, b and the certificate c in a readable root, a and b
\* verifying, the walk reading the directory to its end
Scenario ==
    /\ op = "VerifyDir" /\ ~openErr /\ ~readErr
    /\ kind = [NoTree EXCEPT !["r"] = "D", !["a"] = "F", !["b"] = "F", !["c"] = "F"]
    /\ toolTerm["a"] = Exit(0) /\ toolTerm["b"] = Exit(0)

\* C5: in a VerifyDir walk no command is ever issued for a file named as the
\* certificate, at any depth; every other regular file the walk has reached
\* has exactly one command, and nothing else has any; and the tree
\* {a.bin, b.bin, cert.pem} with both .bin files verifying ends in LE_OK
\* after exactly 2 commands.
C5_CertSkippedOthersOnce ==
    op = "VerifyDir" =>
        /\ \A i \in DOMAIN log : Name(log[i].node) # PUB_CERT_NAME
        /\ \A n \in Nodes :
              Invocations(n) = IF n \in seen /\ kind[n] = "F" /\ Name(n) # PUB_CERT_NAME
                               THEN 1 ELSE 0
        /\ (Scenario /\ pc = "done") => result = LE_OK /\ Len(log) = 2

C5_Witness ==
    Scenario /\ pc = "done" /\ "c" \in seen /\ Len(log) = 2 /\ result = LE_OK

\* C6: in a VerifyDir walk no command is issued for a symbolic link or for
\* anything behind one, the walk never enters a link, and LE_FAULT is only
\* ever returned because fts_open failed or a regular file failed.
C6_SymlinkInert ==
    op = "VerifyDir" =>
        /\ \A i \in DOMAIN log :
              kind[log[i].node] \notin {"SL", "SLNONE"} /\ log[i].node # "t"
        /\ "t" \notin seen
        /\ result = LE_FAULT =>
              \/ fts = "NULL"
              \/ \E i \in DOMAIN log : log[i].res = LE_FAULT /\ kind[log[i].node] = "F"

C6_Witness ==
    /\ Done("VerifyDir") /\ ~readErr /\ result = LE_OK
    /\ kind["l"] = "SL" /\ "l" \in seen
    /\ kind["t"] = "F" /\ ~NormalZero(toolTerm["t"])

\* C7: ImportPublicCert returns LE_FAULT whenever the key listing holds no
\* .ima entry, and LE_OK when the import command exits with status zero.
C7_ImportFaultsWithoutKey ==
    Done("ImportPublicCert") =>
        /\ ~probe.keys => result = LE_FAULT
        /\ (probe.keys /\ NormalZero(sysTerm) /\ (kernel0.mounted \/ probe.mountOk))
              => result = LE_OK

\* C8: ima_IsEnabled returns true exactly when the shell ran and both the
\* CONFIG_IMA=y probe and the ima_appraise=enforce probe matched, and
\* leaves the kernel state as it found it.
C8_IsEnabledIffBoth ==
    Done("IsEnabled") =>
        /\ result = IF sysTerm.k = "exit" /\ probe.config /\ probe.cmdline
                    THEN "true" ELSE "false"
        /\ kernel = kernel0

C8_Witness ==
    /\ Done("IsEnabled") /\ result = "false"
    /\ sysTerm.k = "exit" /\ probe.config # probe.cmdline

\* C9: VerifyDir never reads or closes a handle that is not open, never
\* closes before it returns, and has called fts_close exactly once when it
\* returns after fts_open succeeded, never when fts_open failed.
C9_HandleReleased ==
    op = "VerifyDir" =>
        /\ ~badUse
        /\ pc # "done" => closeCount = 0 /\ fts # "closed"
        /\ pc = "done" => IF openErr
                          THEN fts = "NULL" /\ closeCount = 0
                          ELSE fts = "closed" /\ closeCount = 1

C9_Witness ==
    /\ Done("VerifyDir") /\ result = LE_FAULT /\ Len(log) >= 1
    /\ fts = "closed" /\ closeCount = 1
    /\ Eligible \ seen # {}

\* C10: a VerifyFile call runs exactly one command, and the command holds
\* the whole of filePath and the whole of certPath, whatever their lengths.
C10_CommandNamesBothPaths ==
    Done("VerifyFile") =>
        /\ Len(log) = 1
        /\ log[1].cmd.file = fileLen /\ log[1].cmd.cert = certLen

============================================================================
